---- MODULE Spec2Model ----
(***************************************************************************)
(* Model of src/src/connection.rs: the byte relay of one Connection (two   *)
(* EndPoints, Front and Back, each with a fixed buffer, a cursor, a        *)
(* readiness set and a write handle onto the other side's socket), and the *)
(* token codec.                                                            *)
(*                                                                         *)
(* The sockets are the environment.  The byte stream that arrives on a     *)
(* socket is a fixed sequence of pairwise distinct, non-zero bytes that    *)
(* also differ between the two sockets, so that a lost, duplicated,        *)
(* reordered or misrouted byte is visible; the code never inspects a byte. *)
(* What a read or a write returns is an input of each step.                *)
(***************************************************************************)
EXTENDS Integers, Sequences, FiniteSets, TLC

\* Length of BufferArray in the model (the source has 4096, line 26).
BufLen == 2

\* Number of bytes the sending side's socket delivers before end of stream,
\* more than a buffer holds.
MaxBytes == 3

\* Number of bytes the other side's socket delivers in reply.
ReplyBytes == 1

Front == 0
Back == 1
EndPointType == {Front, Back}

Peer(e) == 1 - e

\* Option<TcpStream>: None, or Some(s) for a handle onto socket s.
None == {}
Some(s) == {s}
Unwrap(o) == CHOOSE s \in o : TRUE

Readable == "readable"
Writable == "writable"
Error == "error"
Hup == "hup"
Ready == SUBSET {Readable, Writable, Error, Hup}

Min(a, b) == IF a <= b THEN a ELSE b

\* The i-th byte (from 1) that arrives on socket s.
StreamByte(s, i) == 10 * (s + 1) + i

\* The first n bytes that arrived on socket s.
Arrived(s, n) == [i \in 1..n |-> StreamByte(s, i)]

\* What one read() or write() on a non-blocking socket may do with a slice of
\* length len: transfer n <= len bytes, or fail.  NoOutcome stands for the
\* outcome of a call that is not made.
IoOutcome(len) == [kind : {"ok"}, n : 0..len]
                    \cup [kind : {"wouldblock", "error"}, n : {0}]
NoOutcome == [kind |-> "none", n |-> 0]

VARIABLES
    state,          \* EndPoint.state of each point
    buffer,         \* EndPoint.buffer of each point, a sequence of BufLen bytes
    buffer_index,   \* EndPoint.buffer_index of each point
    peer_stream,    \* EndPoint.peer_stream of each point: None or a socket
    stream_len,     \* bytes each socket delivers before end of stream
    nread,          \* bytes read so far from each socket
    sent,           \* bytes written so far to each socket
    last            \* the last call made and what it returned

vars == <<state, buffer, buffer_index, peer_stream, stream_len, nread, sent, last>>

\* The part of the state that absorb and pipe_to_peer work on, and the calls
\* of them made so far in the running tick, in the order they were made.
World == [buffer |-> buffer, buffer_index |-> buffer_index,
          nread |-> nread, sent |-> sent, calls |-> <<>>]

\* The world w once operation op was called on point e.
Called(w, op, e) == [w EXCEPT !.calls = Append(@, <<op, e>>)]

\* Stream::read on socket s into a slice of length len, when `already` bytes
\* of its stream were read before: a read returns at most len bytes, and
\* Ok(0) at the end of the stream.
SocketRead(s, already, len, out) ==
    IF out.kind = "ok"
    THEN [kind |-> "ok", n |-> Min(out.n, Min(len, stream_len[s] - already))]
    ELSE out

\* Stream::write of a slice of length len: at most len bytes are accepted.
SocketWrite(len, out) ==
    IF out.kind = "ok"
    THEN [kind |-> "ok", n |-> Min(out.n, len)]
    ELSE out

\* A copy that moves nothing.
PtrCopy_NoMove(buf, src, dst, count) == buf

\* ptr::copy(&buf[src], &mut buf[dst], count): the copy of count bytes that
\* allows source and destination to overlap (a memmove), both within the
\* one buffer.
PtrCopy(buf, src, dst, count) ==
    [i \in 1..BufLen |->
        IF dst < i /\ i <= dst + count THEN buf[src + (i - dst)] ELSE buf[i]]

\* A handle onto the point's own socket instead of the one given.
set_peer_stream_Own(old, tcp_stream, cloned) ==
    IF cloned THEN Some(Peer(tcp_stream)) ELSE old

\* EndPoint::set_peer_stream: try_clone may fail, and then nothing is set.
set_peer_stream(old, tcp_stream, cloned) ==
    IF cloned THEN Some(tcp_stream) ELSE old

\* A read into the whole buffer instead of its unused tail.
ReadSlice_Whole(w, e) == BufLen

\* The slice absorb reads into: buffer.split_at_mut(buffer_index).1
ReadSlice(w, e) == BufLen - w.buffer_index[e]

\* A test for a full buffer that is off by one.
BufferFull_OffByOne(w, e) == w.buffer_index[e] > BufLen

\* absorb's test for a full buffer.
BufferFull(w, e) == w.buffer_index[e] >= BufLen

\* A test for an empty buffer that never holds.
BufferEmpty_Never(w, e) == FALSE

\* pipe_to_peer's test for an empty buffer.
BufferEmpty(w, e) == w.buffer_index[e] = 0

\* The slice pipe_to_peer writes: buffer.split_at(buffer_index).0
WriteSlice(w, e) == w.buffer_index[e]

\* EndPoint::absorb on point e; the result carries the new world, the value
\* returned and what the read did ("none" when no read was made).
absorb(w, e, out) ==
    LET wc == Called(w, "absorb", e)
    IN IF BufferFull(w, e)
       THEN [w |-> wc, ret |-> 0, io |-> "none"]
       ELSE LET idx == w.buffer_index[e]
                r == SocketRead(e, w.nread[e], ReadSlice(w, e), out)
            IN IF r.kind = "ok"
               THEN [w |-> [wc EXCEPT
                             !.buffer[e] = [i \in 1..BufLen |->
                                 IF idx < i /\ i <= idx + r.n
                                 THEN StreamByte(e, w.nread[e] + (i - idx))
                                 ELSE w.buffer[e][i]],
                             !.buffer_index[e] = idx + r.n,
                             !.nread[e] = w.nread[e] + r.n],
                     ret |-> r.n, io |-> "ok"]
               ELSE [w |-> wc, ret |-> 0, io |-> r.kind]

\* EndPoint::pipe_to_peer on point e.
pipe_to_peer(w, e, out) ==
    LET wc == Called(w, "pipe_to_peer", e)
    IN IF BufferEmpty(w, e)
       THEN [w |-> wc, ret |-> 0, io |-> "none"]
       ELSE IF peer_stream[e] = None
       THEN [w |-> wc, ret |-> 0, io |-> "none"]
       ELSE LET idx == w.buffer_index[e]
                dest == Unwrap(peer_stream[e])
                r == SocketWrite(WriteSlice(w, e), out)
                left == idx - r.n
            IN IF r.kind = "ok"
               THEN [w |-> [wc EXCEPT
                             !.sent[dest] = w.sent[dest] \o SubSeq(w.buffer[e], 1, r.n),
                             !.buffer[e] = IF left > 0
                                           THEN PtrCopy(w.buffer[e], r.n, 0, left)
                                           ELSE w.buffer[e],
                             !.buffer_index[e] = left],
                     ret |-> r.n, io |-> "ok"]
               ELSE [w |-> wc, ret |-> 0, io |-> r.kind]

NotCalled == -1

NoCall == [e \in EndPointType |-> NotCalled]
NoIo == [e \in EndPointType |-> "none"]

\* The record kept of the last call: the operation, the readiness of the
\* points when tick began, what tick returned, the calls of absorb and
\* pipe_to_peer it made, in order, and for each point what its
\* one call of absorb and of pipe_to_peer returned (NotCalled when it was not
\* called) and what the read and the write did.
Call(op, ready, ret, calls, absorbed, rio, piped, wio) ==
    [op |-> op, ready |-> ready, ret |-> ret, calls |-> calls,
     absorbed |-> absorbed, rio |-> rio, piped |-> piped, wio |-> wio]

Plain(op) ==
    Call(op, [e \in EndPointType |-> {}], FALSE, <<>>, NoCall, NoIo, NoCall, NoIo)

\* Connection::new, on two connected sockets.
New ==
    /\ state = [e \in EndPointType |-> {}]
    /\ buffer = [e \in EndPointType |-> [i \in 1..BufLen |-> 0]]
    /\ buffer_index = [e \in EndPointType |-> 0]
    /\ \E cloned \in [EndPointType -> BOOLEAN] :
          peer_stream = [e \in EndPointType |->
                            set_peer_stream(None, Peer(e), cloned[e])]
    /\ nread = [e \in EndPointType |-> 0]
    /\ sent = [e \in EndPointType |-> <<>>]
    /\ last = Plain("new")

\* A session in which one side sends more than a buffer holds and the other
\* side replies.
Init ==
    /\ New
    /\ \E sender \in EndPointType :
          stream_len = [e \in EndPointType |->
                           IF e = sender THEN MaxBytes ELSE ReplyBytes]

\* An assignment instead of an insertion.
Insert_Assign(ready, events) == events

\* Ready::insert
Insert(ready, events) == ready \cup events

\* A removal that empties the set.
Remove_All(ready, events) == {}

\* Ready::remove
Remove(ready, events) == ready \ events

\* Connection::incoming_ready
incoming_ready(events) ==
    /\ state' = [state EXCEPT ![Front] = Insert(state[Front], events)]
    /\ last' = Plain("incoming_ready")
    /\ UNCHANGED <<buffer, buffer_index, peer_stream, stream_len, nread, sent>>

\* Connection::outgoing_ready
outgoing_ready(events) ==
    /\ state' = [state EXCEPT ![Back] = Insert(state[Back], events)]
    /\ last' = Plain("outgoing_ready")
    /\ UNCHANGED <<buffer, buffer_index, peer_stream, stream_len, nread, sent>>

\* A test of the wrong point.
is_outgoing_closed_Front == Error \in state[Front] \/ Hup \in state[Front]

\* Connection::is_outgoing_closed
is_outgoing_closed == Error \in state[Back] \/ Hup \in state[Back]

\* Connection::is_incoming_closed
is_incoming_closed == Error \in state[Front] \/ Hup \in state[Front]

\* A closure that drains a point as soon as it has absorbed.
TickPoint_Interleaved(st, w, e, out) ==
    LET a == IF Readable \in st[e]
             THEN absorb(w, e, out)
             ELSE [w |-> w, ret |-> NotCalled, io |-> "none"]
    IN [st |-> [st EXCEPT ![e] = st[e] \ {Readable, Writable}],
        w |-> IF Writable \in st[e] THEN pipe_to_peer(a.w, e, out).w ELSE a.w,
        absorbed |-> a.ret, rio |-> a.io,
        need |-> Writable \in st[e]]

\* The closure tick maps over the points: absorb when readable, clear
\* readable, then clear writable and yield whether it was set.
TickPoint(st, w, e, out) ==
    LET a == IF Readable \in st[e]
             THEN absorb(w, e, out)
             ELSE [w |-> w, ret |-> NotCalled, io |-> "none"]
        st1 == IF Readable \in st[e]
               THEN [st EXCEPT ![e] = Remove(st[e], {Readable})]
               ELSE st
    IN [st |-> IF Writable \in st1[e]
               THEN [st1 EXCEPT ![e] = Remove(st1[e], {Writable})]
               ELSE st1,
        w |-> a.w, absorbed |-> a.ret, rio |-> a.io,
        need |-> Writable \in st1[e]]

\* The results in the order of the points, as without .rev().
need_pipe_NoRev(resFront, resBack) ==
    [index \in {0, 1} |-> IF index = 0 THEN resFront ELSE resBack]

\* need_pipe as collected: the map is consumed from the back (.rev()), so
\* the closure runs on Back first and element 0 is Back's result.
need_pipe(resFront, resBack) ==
    [index \in {0, 1} |-> IF index = 0 THEN resBack ELSE resFront]

\* A loop that drains every point.
TickPipe_Always(w, need, index, out) == pipe_to_peer(w, index, out)

\* A loop that throws the buffered bytes away when the write fails.
TickPipe_DropOnError(w, need, index, out) ==
    IF need[index]
    THEN LET p == pipe_to_peer(w, index, out)
         IN IF p.io \in {"wouldblock", "error"}
            THEN [p EXCEPT !.w.buffer_index[index] = 0]
            ELSE p
    ELSE [w |-> w, ret |-> NotCalled, io |-> "none"]

\* A loop that reports the bytes offered to the write, not those written.
TickPipe_Offered(w, need, index, out) ==
    IF need[index]
    THEN [pipe_to_peer(w, index, out) EXCEPT !.ret = w.buffer_index[index]]
    ELSE [w |-> w, ret |-> NotCalled, io |-> "none"]

\* A loop that drains no point.
TickPipe_Never(w, need, index, out) ==
    [w |-> w, ret |-> NotCalled, io |-> "none"]

\* One step of the loop over the points in tick.
TickPipe(w, need, index, out) ==
    IF need[index]
    THEN pipe_to_peer(w, index, out)
    ELSE [w |-> w, ret |-> NotCalled, io |-> "none"]

\* The outcomes of the read made for a point that is readable, and of the
\* write made for a point that is drained: a call transfers no more than
\* the slice it is given.
ReadOutcomes(st, w, e) ==
    IF Readable \in st[e] THEN IoOutcome(ReadSlice(w, e)) ELSE {NoOutcome}

WriteOutcomes(w, need, index) ==
    IF need[index] THEN IoOutcome(WriteSlice(w, index)) ELSE {NoOutcome}

\* Connection::tick.  Each intermediate result is bound once, in the order
\* the code computes it.
tick ==
    \E rdBack \in ReadOutcomes(state, World, Back) :
    \E pb \in {TickPoint(state, World, Back, rdBack)} :
    \E rdFront \in ReadOutcomes(pb.st, pb.w, Front) :
    \E pf \in {TickPoint(pb.st, pb.w, Front, rdFront)} :
    \E need \in {need_pipe(pf.need, pb.need)} :
    \E wr0 \in WriteOutcomes(pf.w, need, 0) :
    \E q0 \in {TickPipe(pf.w, need, 0, wr0)} :
    \E wr1 \in WriteOutcomes(q0.w, need, 1) :
    \E q1 \in {TickPipe(q0.w, need, 1, wr1)} :
    LET sended == (q0.ret > 0) \/ (q1.ret > 0)
    IN /\ state' = pf.st
       /\ buffer' = q1.w.buffer
       /\ buffer_index' = q1.w.buffer_index
       /\ nread' = q1.w.nread
       /\ sent' = q1.w.sent
       /\ last' = Call("tick", state, sended, q1.w.calls,
                       [e \in EndPointType |-> IF e = Front THEN pf.absorbed ELSE pb.absorbed],
                       [e \in EndPointType |-> IF e = Front THEN pf.rio ELSE pb.rio],
                       [e \in EndPointType |-> IF e = 0 THEN q0.ret ELSE q1.ret],
                       [e \in EndPointType |-> IF e = 0 THEN q0.io ELSE q1.io])
       /\ UNCHANGED <<peer_stream, stream_len>>

\* The readiness sets the poller reports for a socket that is neither closed
\* nor in error.
ReadyOpen == SUBSET {Readable, Writable}

Next ==
    \/ \E events \in ReadyOpen : incoming_ready(events)
    \/ \E events \in ReadyOpen : outgoing_ready(events)
    \/ tick

Spec == Init /\ [][Next]_vars

\* The same Connection under every readiness set the poller can report, hup
\* and error included, in a session where one side only sends, as many bytes
\* as a buffer holds.
InitReady ==
    /\ New
    /\ \E sender \in EndPointType :
          stream_len = [e \in EndPointType |-> IF e = sender THEN BufLen ELSE 0]

NextReady ==
    \/ \E events \in Ready : incoming_ready(events)
    \/ \E events \in Ready : outgoing_ready(events)
    \/ tick

SpecReady == InitReady /\ [][NextReady]_vars

\* The same Connection again, under every readiness set, in a session where
\* one side sends a single byte: what the merges do does not depend on how
\* much data there is.
InitMerge ==
    /\ New
    /\ \E sender \in EndPointType :
          stream_len = [e \in EndPointType |-> IF e = sender THEN 1 ELSE 0]

SpecMerge == InitMerge /\ [][NextReady]_vars

\* A Connection whose two peer handles are installed, driven by a caller that
\* keeps invoking tick and keeps merging writable for each point, on sockets
\* that accept at least one byte of every write made to them.  Reads may
\* return anything, would block or fail.  One side sends one byte more than
\* a buffer holds and the other side replies with one byte.
InitLive ==
    /\ New
    /\ \A e \in EndPointType : peer_stream[e] # None
    /\ \E sender \in EndPointType :
          stream_len = [e \in EndPointType |->
                           IF e = sender THEN BufLen + 1 ELSE 1]

\* A tick all of whose writes accept at least one byte.
TickLive ==
    /\ tick
    /\ \A e \in EndPointType :
          \/ last'.wio[e] = "none"
          \/ last'.wio[e] = "ok" /\ last'.piped[e] >= 1

NextLive ==
    \/ \E events \in ReadyOpen : incoming_ready(events)
    \/ \E events \in ReadyOpen : outgoing_ready(events)
    \/ TickLive

SpecLive ==
    /\ InitLive
    /\ [][NextLive]_vars
    /\ WF_vars(TickLive)
    /\ WF_vars(incoming_ready({Writable}))
    /\ WF_vars(outgoing_ready({Writable}))

(***************************************************************************)
(* The tokens: TokenType and ListenerToken, IncomingToken, OutgoingToken.  *)
(***************************************************************************)

\* The width of usize, scaled down.
TokenBits == 5

Usize == 0..(2^TokenBits - 1)

Listener == "Listener"
Incoming == "Incoming"
Outgoing == "Outgoing"
TokenType == {Listener, Incoming, Outgoing}

\* A shift that keeps the bits that do not fit.
Shl_Wide(x, k) == x * 2^k

\* usize << k: the bits shifted past the width are dropped.
Shl(x, k) == (x * 2^k) % 2^TokenBits

\* A shift by one bit too few.
Shr_Less(x, k) == x \div 2^(k - 1)

\* usize >> k
Shr(x, k) == x \div 2^k

\* usize & 3
And3(x) == x % 4

Token(kind, index) == [kind |-> kind, index |-> index]

\* unreachable!()
Unreachable == [kind |-> "unreachable", index |-> 0]

\* ListenerToken::as_raw_token
ListenerToken_as_raw_token(index) == Shl(index, 2)

\* IncomingToken::as_raw_token
IncomingToken_as_raw_token(index) == Shl(index, 2) + 1

\* OutgoingToken::as_raw_token
OutgoingToken_as_raw_token(index) == Shl(index, 2) + 2

\* as_raw_token of the token of either type.
as_raw_token(t) ==
    CASE t.kind = Listener -> ListenerToken_as_raw_token(t.index)
      [] t.kind = Incoming -> IncomingToken_as_raw_token(t.index)
      [] t.kind = Outgoing -> OutgoingToken_as_raw_token(t.index)

\* TokenType::from_raw_token
from_raw_token(i) ==
    CASE And3(i) = 0 -> Token(Listener, Shr(i, 2))
      [] And3(i) = 1 -> Token(Incoming, Shr(i, 2))
      [] And3(i) = 2 -> Token(Outgoing, Shr(i, 2))
      [] OTHER -> Unreachable

\* The record kept of the last call on a token: the token encoded, the raw
\* token, and the token decoded.
TokenCall(op, of, raw, token) ==
    [op |-> op, of |-> of, raw |-> raw, token |-> token]

\* A token is made for a slot of the connection table and registered.
AsRawToken ==
    /\ \E kind \in TokenType, index \in Usize :
          last' = TokenCall("as_raw_token", Some(Token(kind, index)),
                            as_raw_token(Token(kind, index)), None)
    /\ UNCHANGED <<state, buffer, buffer_index, peer_stream, stream_len,
                   nread, sent>>

\* The poller hands back the raw token that was registered.
FromRawToken ==
    /\ last.op = "as_raw_token"
    /\ last' = TokenCall("from_raw_token", last.of, last.raw,
                         Some(from_raw_token(last.raw)))
    /\ UNCHANGED <<state, buffer, buffer_index, peer_stream, stream_len,
                   nread, sent>>

\* from_raw_token on a raw token that no as_raw_token made.
FromAnyToken ==
    /\ \E raw \in Usize :
          last' = TokenCall("from_raw_token", None, raw,
                            Some(from_raw_token(raw)))
    /\ UNCHANGED <<state, buffer, buffer_index, peer_stream, stream_len,
                   nread, sent>>

InitToken ==
    /\ New
    /\ stream_len = [e \in EndPointType |-> 0]

NextToken ==
    \/ AsRawToken
    \/ FromRawToken
    \/ FromAnyToken

SpecToken == InitToken /\ [][NextToken]_vars

(***************************************************************************)
(* The claims.                                                             *)
(***************************************************************************)

\* buffer[0..buffer_index] of point e.
Unsent(e) == SubSeq(buffer[e], 1, buffer_index[e])

\* The bytes that arrived on socket s after the first n, k of them.
ArrivedNext(s, n, k) == [i \in 1..k |-> StreamByte(s, n + i)]

\* The value a call returned, 0 when the call was not made.
Got(r) == IF r = NotCalled THEN 0 ELSE r

\* C1: for each point, the bytes written so far to its peer's socket followed
\* by its buffer[0..buffer_index] are exactly the bytes read so far from its
\* own socket, in order.
C1_ByteStream ==
    \A e \in EndPointType :
        sent[Peer(e)] \o Unsent(e) = Arrived(e, nread[e])

\* Both directions have delivered bytes and hold bytes, the sender's stream
\* has been read to its end, and the last tick read and wrote.
C1_Witness ==
    /\ last.op = "tick"
    /\ \E e \in EndPointType :
          /\ nread[e] = MaxBytes
          /\ Len(sent[Peer(e)]) > 0
          /\ buffer_index[e] > 0
          /\ last.absorbed[e] > 0
          /\ last.piped[e] > 0
          /\ Len(sent[e]) > 0

\* C2: 0 <= buffer_index <= capacity for both points, in every state.
C2_UsedLenInRange ==
    \A e \in EndPointType :
        /\ buffer_index[e] \in 0..BufLen
        /\ Len(buffer[e]) = BufLen

\* A tick has just filled a buffer to its capacity with a read.
C2_Witness ==
    /\ last.op = "tick"
    /\ \E e \in EndPointType :
          /\ buffer_index[e] = BufLen
          /\ last.absorbed[e] > 0
          /\ last.rio[e] = "ok"

C4_AbsorbFrame ==
    [][\A e \in EndPointType :
          /\ (/\ last'.op = "tick"
              /\ Readable \in state[e]
              /\ buffer_index[e] = BufLen)
             => /\ last'.absorbed[e] = 0
                /\ last'.rio[e] = "none"
                /\ nread'[e] = nread[e]
                /\ last'.piped[e] = NotCalled
                      => buffer'[e] = buffer[e] /\ buffer_index'[e] = buffer_index[e]
          /\ buffer_index'[e] > buffer_index[e]
             => last'.op = "tick" /\ last'.absorbed[e] > 0
          /\ last'.op = "tick"
             => /\ buffer_index'[e]
                      = buffer_index[e] + Got(last'.absorbed[e]) - Got(last'.piped[e])
                /\ nread'[e] = nread[e] + Got(last'.absorbed[e])
          /\ last'.op # "tick"
             => buffer_index'[e] = buffer_index[e] /\ buffer'[e] = buffer[e]
      ]_vars

\* A tick has just called absorb on a full buffer, with bytes still to come
\* on the socket, and did not drain it.
C4_Witness ==
    /\ last.op = "tick"
    /\ \E e \in EndPointType :
          /\ buffer_index[e] = BufLen
          /\ last.absorbed[e] = 0
          /\ last.rio[e] = "none"
          /\ last.piped[e] = NotCalled
          /\ nread[e] < stream_len[e]

\* C5: pipe_to_peer called with buffer_index = 0, or with no peer_stream,
\* makes no write, returns 0 and leaves the buffer and buffer_index as they
\* are; and a point with no peer_stream keeps none, and its buffer is never
\* drained by any later step.
C5_PipeNoOp ==
    [][\A e \in EndPointType :
          /\ (/\ last'.op = "tick"
              /\ last'.piped[e] # NotCalled
              /\ \/ buffer_index[e] + Got(last'.absorbed[e]) = 0
                 \/ peer_stream[e] = None)
             => /\ last'.piped[e] = 0
                /\ last'.wio[e] = "none"
                /\ sent'[Peer(e)] = sent[Peer(e)]
                /\ buffer_index'[e] = buffer_index[e] + Got(last'.absorbed[e])
                /\ last'.absorbed[e] = NotCalled => buffer'[e] = buffer[e]
          /\ peer_stream[e] = None
             => /\ peer_stream'[e] = None
                /\ buffer_index'[e] >= buffer_index[e]
                /\ Unsent(e) = SubSeq(buffer'[e], 1, buffer_index[e])
                /\ sent'[Peer(e)] = <<>>
      ]_vars

\* A tick has just called pipe_to_peer on a point that holds bytes and has no
\* peer_stream, and on the other point, which has one and holds nothing.
C5_Witness ==
    /\ last.op = "tick"
    /\ \E e \in EndPointType :
          /\ peer_stream[e] = None
          /\ buffer_index[e] > 0
          /\ last.piped[e] = 0
          /\ peer_stream[Peer(e)] # None
          /\ buffer_index[Peer(e)] = 0
          /\ last.piped[Peer(e)] = 0
          /\ last.wio[Peer(e)] = "none"

C7_Backpressure ==
    [][\A e \in EndPointType :
          last'.op = "tick"
          => /\ Writable \notin state[Peer(e)]
                => /\ last'.piped[e] = NotCalled
                   /\ buffer_index'[e] >= buffer_index[e]
                   /\ sent'[Peer(e)] = sent[Peer(e)]
             /\ (Readable \in state[e] /\ buffer_index[e] = BufLen)
                => /\ last'.absorbed[e] = 0
                   /\ last'.rio[e] = "none"
                   /\ nread'[e] = nread[e]
             /\ (/\ Readable \in state[e] /\ buffer_index[e] = BufLen
                 /\ Writable \notin state[Peer(e)])
                => buffer_index'[e] = BufLen
             /\ buffer_index'[e] <= BufLen
             /\ (buffer_index[e] = BufLen /\ last'.wio[e] = "ok")
                => buffer_index'[e] = BufLen - last'.piped[e]
             /\ (Readable \in state[e] /\ buffer_index[e] < BufLen)
                => last'.rio[e] # "none"
      ]_vars

\* With more bytes than a buffer holds on the socket and the peer never
\* writable, the buffer is full, nothing was written, and the last tick's
\* absorb returned 0 without a read.
C7_Witness ==
    /\ last.op = "tick"
    /\ \E e \in EndPointType :
          /\ stream_len[e] > BufLen
          /\ peer_stream[e] # None
          /\ buffer_index[e] = BufLen
          /\ nread[e] = BufLen
          /\ sent[Peer(e)] = <<>>
          /\ Readable \in last.ready[e]
          /\ Writable \notin last.ready[Peer(e)]
          /\ last.absorbed[e] = 0
          /\ last.rio[e] = "none"

\* C8 as stated: tick calls pipe_to_peer on exactly the points whose own
\* readiness had writable when the tick began.
C8_AsStated ==
    last.op = "tick"
    => \A e \in EndPointType :
          last.piped[e] # NotCalled <=> Writable \in last.ready[e]

\* C8, amended: tick calls pipe_to_peer on exactly the points whose peer's
\* readiness had writable when the tick began.
C8_DrainWhenPeerWritable ==
    last.op = "tick"
    => \A e \in EndPointType :
          last.piped[e] # NotCalled <=> Writable \in last.ready[Peer(e)]

\* A tick that began with one point writable and the other not has just
\* written bytes from the buffer of the one that was not.
C8_Witness ==
    /\ last.op = "tick"
    /\ \E e \in EndPointType :
          /\ Writable \in last.ready[Peer(e)]
          /\ Writable \notin last.ready[e]
          /\ last.piped[e] > 0
          /\ last.piped[Peer(e)] = NotCalled

\* C9: a tick calls absorb on a point once if it was readable and not
\* otherwise, and after it each point's readiness is what it was when the
\* tick began without readable and writable: hup and error are kept.
C9_EdgeTriggered ==
    last.op = "tick"
    => \A e \in EndPointType :
          /\ last.absorbed[e] # NotCalled <=> Readable \in last.ready[e]
          /\ state[e] = last.ready[e] \ {Readable, Writable}

\* A tick that began with a point readable, writable and hung up, its buffer
\* full, and its peer in error, has read nothing and written nothing.
C9_Witness ==
    /\ last.op = "tick"
    /\ \E e \in EndPointType :
          /\ last.ready[e] = {Readable, Writable, Hup}
          /\ last.ready[Peer(e)] = {Error}
          /\ buffer_index[e] = BufLen
          /\ last.absorbed[e] = 0
          /\ last.rio[e] = "none"
          /\ last.piped[Peer(e)] = 0
          /\ last.ret = FALSE
          /\ state[e] = {Hup}
          /\ state[Peer(e)] = {Error}

\* C10: is_incoming_closed / is_outgoing_closed hold exactly when Front's /
\* Back's readiness has error or hup; merging a set with hup or error into
\* one side makes that side's predicate hold and leaves the other side's as
\* it was.
C10_Closed ==
    [][/\ is_incoming_closed' <=> (state'[Front] \cap {Error, Hup} # {})
       /\ is_outgoing_closed' <=> (state'[Back] \cap {Error, Hup} # {})
       /\ last'.op = "incoming_ready"
          => /\ is_outgoing_closed' <=> is_outgoing_closed
             /\ \/ is_incoming_closed'
                \/ \A events \in Ready :
                      events \cap {Error, Hup} # {} => ~incoming_ready(events)
       /\ last'.op = "outgoing_ready"
          => /\ is_incoming_closed' <=> is_incoming_closed
             /\ \/ is_outgoing_closed'
                \/ \A events \in Ready :
                      events \cap {Error, Hup} # {} => ~outgoing_ready(events)
      ]_vars

\* hup alone has just been merged into Back, which was never readable or
\* writable: Back is closed and Front is not.
C10_Witness ==
    /\ last.op = "outgoing_ready"
    /\ state[Back] = {Hup}
    /\ nread[Back] = 0
    /\ sent[Back] = <<>>
    /\ is_outgoing_closed
    /\ ~is_incoming_closed

\* C11: incoming_ready(events) / outgoing_ready(events) set Front's / Back's
\* readiness to the union of what it was and events, so that no flag is
\* cleared, and leave the other point's readiness, both buffers and both
\* buffer_index values as they were.
C11_MergeFrame ==
    [][/\ last'.op = "incoming_ready"
          => /\ state[Front] \subseteq state'[Front]
             /\ state'[Back] = state[Back]
             /\ buffer' = buffer /\ buffer_index' = buffer_index
             /\ nread' = nread /\ sent' = sent
             /\ \A events \in Ready :
                   \/ state'[Front] = state[Front] \cup events
                   \/ ~incoming_ready(events)
       /\ last'.op = "outgoing_ready"
          => /\ state[Back] \subseteq state'[Back]
             /\ state'[Front] = state[Front]
             /\ buffer' = buffer /\ buffer_index' = buffer_index
             /\ nread' = nread /\ sent' = sent
             /\ \A events \in Ready :
                   \/ state'[Back] = state[Back] \cup events
                   \/ ~outgoing_ready(events)
      ]_vars

\* writable has just been merged into Front, which was hung up and whose
\* buffer holds bytes, while Back is in error: all of it is still there.
C11_Witness ==
    /\ last.op = "incoming_ready"
    /\ state[Front] = {Writable, Hup}
    /\ state[Back] = {Error}
    /\ \E e \in EndPointType : buffer_index[e] > 0

\* The indices that fit in the width less the two bits of the tag.
Fits(index) == index < 2^(TokenBits - 2)

\* C12: for every kind and every index that fits in the width less 2 bits,
\* from_raw_token of as_raw_token gives the same kind and index back; the low
\* 2 bits of a raw token that as_raw_token made are never 3, so that
\* from_raw_token of it never reaches unreachable!().
C12_RoundTrip ==
    /\ last.op = "as_raw_token" => And3(last.raw) # 3
    /\ (last.op = "from_raw_token" /\ last.of # None)
       => /\ Unwrap(last.token) # Unreachable
          /\ Fits(Unwrap(last.of).index) => last.token = last.of

\* The Outgoing token of the largest index that fits has come back.
C12_Witness ==
    /\ last.op = "from_raw_token"
    /\ last.of = Some(Token(Outgoing, 2^(TokenBits - 2) - 1))
    /\ last.token = last.of

\* The tag as_raw_token adds for a kind.
Tag(kind) == CASE kind = Listener -> 0 [] kind = Incoming -> 1 [] kind = Outgoing -> 2

\* C15: as_raw_token of an index that needs more than the width less 2 bits
\* gives raw = ((index * 4) mod 2^w) + tag, which is the raw token of a smaller
\* index of the same kind, and from_raw_token of it gives that smaller index
\* back and not the one encoded.
C15_SilentOverflow ==
    (last.op \in {"as_raw_token", "from_raw_token"} /\ last.of # None
     /\ ~Fits(Unwrap(last.of).index))
    => LET of == Unwrap(last.of)
           low == Token(of.kind, of.index % 2^(TokenBits - 2))
       IN /\ last.raw \in Usize
          /\ last.raw = ((of.index * 4) % 2^TokenBits) + Tag(of.kind)
          /\ low.index < of.index
          /\ last.raw = as_raw_token(low)
          /\ last.op = "from_raw_token"
             => /\ last.token # last.of
                /\ last.token = Some(low)

\* The Incoming token of the largest index came back as the largest index
\* that fits.
C15_Witness ==
    /\ last.op = "from_raw_token"
    /\ last.of = Some(Token(Incoming, 2^TokenBits - 1))
    /\ last.token = Some(Token(Incoming, 2^(TokenBits - 2) - 1))

\* The outcomes of a read or a write that fails.
Failed == {"wouldblock", "error"}

\* C13: when the read of absorb or the write of pipe_to_peer fails, with
\* would-block or any other error, the call returns 0 and leaves the buffer
\* and buffer_index as they were (for the write: as absorb left them in the
\* same tick); tick returns its boolean all the same, and no point becomes
\* closed, no hup or error having been merged.
C13_FailureSwallowed ==
    [][last'.op = "tick"
       => /\ last'.ret \in BOOLEAN
          /\ ~is_incoming_closed' /\ ~is_outgoing_closed'
          /\ \A e \in EndPointType :
                /\ last'.rio[e] \in Failed
                   => /\ last'.absorbed[e] = 0
                      /\ nread'[e] = nread[e]
                      /\ last'.piped[e] = NotCalled
                         => /\ buffer'[e] = buffer[e]
                            /\ buffer_index'[e] = buffer_index[e]
                /\ last'.wio[e] \in Failed
                   => /\ last'.piped[e] = 0
                      /\ sent'[Peer(e)] = sent[Peer(e)]
                      /\ buffer_index'[e]
                            = buffer_index[e] + Got(last'.absorbed[e])
                      /\ \A i \in 1..BufLen :
                            buffer'[e][i]
                               = IF buffer_index[e] < i /\ i <= buffer_index'[e]
                                 THEN StreamByte(e, nread[e] + (i - buffer_index[e]))
                                 ELSE buffer[e][i]
                /\ (last'.rio[e] \in Failed /\ last'.wio[e] \in Failed)
                   => /\ buffer'[e] = buffer[e]
                      /\ buffer_index'[e] = buffer_index[e]
      ]_vars

\* A tick in which Front's read and Front's write both failed, with bytes
\* waiting in Front's buffer, and they are still there.
C13_Witness ==
    /\ last.op = "tick"
    /\ last.rio[Front] = "error"
    /\ last.wio[Front] = "wouldblock"
    /\ buffer_index[Front] > 0
    /\ sent[Back] # <<>>

\* C14: tick returns true if and only if one of the pipe_to_peer calls it
\* made wrote more than 0 bytes, that is, if and only if a socket was handed
\* bytes; a tick that only absorbs, or whose writes all accept 0 bytes,
\* would block or fail, returns false.
C14_TickReturn ==
    [][last'.op = "tick"
       => /\ last'.ret <=> \E e \in EndPointType : last'.piped[e] > 0
          /\ last'.ret <=> \E s \in EndPointType : Len(sent'[s]) > Len(sent[s])
          /\ \A e \in EndPointType :
                Len(sent'[Peer(e)]) = Len(sent[Peer(e)]) + Got(last'.piped[e])
          /\ (\A e \in EndPointType :
                 last'.wio[e] \in Failed \cup {"none"} \/ last'.piped[e] = 0)
             => ~last'.ret
      ]_vars

\* A tick that absorbed bytes on one point and whose one write accepted 0
\* bytes returned false.
C14_Witness ==
    /\ last.op = "tick"
    /\ ~last.ret
    /\ \E e \in EndPointType : last.absorbed[e] > 0
    /\ \E e \in EndPointType : last.wio[e] = "ok" /\ last.piped[e] = 0

\* C16: in a tick a write to a socket is attempted only if that socket's own
\* point was writable when the tick began; Front is drained exactly when Back
\* was writable and Back exactly when Front was; and every call of absorb in
\* the tick is made before any call of pipe_to_peer.
C16_DrainOrder ==
    last.op = "tick"
    => LET calls == last.calls
           Drained(e) == \E i \in DOMAIN calls : calls[i] = <<"pipe_to_peer", e>>
       IN /\ \A e \in EndPointType :
                last.wio[e] # "none"
                => /\ peer_stream[e] # None
                   /\ Writable \in last.ready[Unwrap(peer_stream[e])]
          /\ Drained(Front) <=> Writable \in last.ready[Back]
          /\ Drained(Back) <=> Writable \in last.ready[Front]
          /\ \A i, j \in DOMAIN calls :
                (calls[i][1] = "absorb" /\ calls[j][1] = "pipe_to_peer")
                => i < j

\* A tick has absorbed on both points and then drained both, and bytes
\* absorbed in it were written in it.
C16_Witness ==
    /\ last.op = "tick"
    /\ last.calls = << <<"absorb", Back>>, <<"absorb", Front>>,
                       <<"pipe_to_peer", Front>>, <<"pipe_to_peer", Back>> >>
    /\ \E e \in EndPointType :
          /\ last.absorbed[e] > 0
          /\ last.piped[e] > 0
          /\ Len(sent[Peer(e)]) = nread[e]

\* C17: a tick that begins with neither point readable or writable makes no
\* call of absorb or pipe_to_peer, so no read and no write, leaves both
\* buffers, both buffer_index values and both readiness sets as they were and
\* returns false; a tick that directly follows a tick is such a tick.
C17_IdleTick ==
    [][last'.op = "tick"
       => /\ (\A e \in EndPointType : state[e] \cap {Readable, Writable} = {})
             => /\ last'.calls = <<>>
                /\ last'.rio = NoIo /\ last'.wio = NoIo
                /\ state' = state
                /\ buffer' = buffer /\ buffer_index' = buffer_index
                /\ nread' = nread /\ sent' = sent
                /\ last'.ret = FALSE
          /\ last.op = "tick"
             => /\ \A e \in EndPointType : state[e] \cap {Readable, Writable} = {}
                /\ last'.calls = <<>>
                /\ state' = state
                /\ buffer' = buffer /\ buffer_index' = buffer_index
                /\ nread' = nread /\ sent' = sent
                /\ last'.ret = FALSE
      ]_vars

\* A tick made with bytes waiting in a buffer, a point hung up and nothing
\* readable or writable has done nothing.
C17_Witness ==
    /\ last.op = "tick"
    /\ last.calls = <<>>
    /\ \A e \in EndPointType : last.ready[e] \cap {Readable, Writable} = {}
    /\ \E e \in EndPointType : Hup \in last.ready[e]
    /\ \E e \in EndPointType :
          /\ buffer_index[e] > 0
          /\ nread[e] < stream_len[e]
    /\ ~last.ret

\* What a read or a write did in the tick just made, as an outcome.
Outcome(kind, ret) == [kind |-> kind, n |-> Got(ret)]

\* The direction from point e to its peer: e's buffer and buffer_index, the
\* bytes read from e's socket and the bytes written to the peer's socket.
Direction(w, e) ==
    [buffer |-> w.buffer[e], buffer_index |-> w.buffer_index[e],
     nread |-> w.nread[e], sent |-> w.sent[Peer(e)]]

\* The world in which the direction from e is as it is and the other
\* direction is as after Connection::new.
Alone(e) ==
    [buffer |-> [buffer EXCEPT ![Peer(e)] = [i \in 1..BufLen |-> 0]],
     buffer_index |-> [buffer_index EXCEPT ![Peer(e)] = 0],
     nread |-> [nread EXCEPT ![Peer(e)] = 0],
     sent |-> [sent EXCEPT ![e] = <<>>],
     calls |-> <<>>]

\* That d is the direction from e after absorb on e, if e is readable, and
\* then pipe_to_peer on e, if e's peer is writable, with nothing else done
\* (and so, with neither, as it was).  Each intermediate world is bound once.
DirAfter(e, readable, peerWritable, rd, wr, d) ==
    IF ~readable /\ ~peerWritable
    THEN d = Direction(World, e)
    ELSE \E w0 \in {Alone(e)} :
         \E w1 \in {IF readable THEN absorb(w0, e, rd).w ELSE w0} :
         \E w2 \in {IF peerWritable THEN pipe_to_peer(w1, e, wr).w ELSE w1} :
            d = Direction(w2, e)

\* C18: what a tick does to the direction from a point to its peer is fixed
\* by that direction's state before, the point's readable flag, the peer's
\* writable flag and what that direction's read and write did, the same
\* function for both directions, whatever the state of the other direction
\* and although tick works on the points in a fixed order.
C18_DirectionsIndependent ==
    [][last'.op = "tick"
       => \A e \in EndPointType :
             \E rd \in {Outcome(last'.rio[e], last'.absorbed[e])} :
             \E wr \in {Outcome(last'.wio[e], last'.piped[e])} :
             \E d \in {[buffer |-> buffer'[e], buffer_index |-> buffer_index'[e],
                        nread |-> nread'[e], sent |-> sent'[Peer(e)]]} :
                DirAfter(e, Readable \in state[e], Writable \in state[Peer(e)],
                         rd, wr, d)
      ]_vars

\* One tick has moved bytes in the direction from Front while in the
\* direction from Back, with bytes buffered, the write failed.
C18_Witness ==
    /\ last.op = "tick"
    /\ last.absorbed[Front] > 0
    /\ last.piped[Front] > 0
    /\ last.wio[Back] = "error"
    /\ buffer_index[Back] > 0

\* The flags of point e that make it closed.
ClosedFlags(st, e) == st[e] \cap {Hup, Error}

\* C19: no step removes hup or error from a point, so is_incoming_closed and
\* is_outgoing_closed, once true, stay true over every merge and tick; and a
\* tick, with the absorb and pipe_to_peer calls it makes, neither adds nor
\* removes hup or error, so neither predicate becomes true by a tick.
C19_ClosedSticky ==
    [][/\ is_incoming_closed => is_incoming_closed'
       /\ is_outgoing_closed => is_outgoing_closed'
       /\ \A e \in EndPointType : ClosedFlags(state, e) \subseteq ClosedFlags(state', e)
       /\ last'.op = "tick"
          => /\ \A e \in EndPointType : ClosedFlags(state', e) = ClosedFlags(state, e)
             /\ is_incoming_closed' <=> is_incoming_closed
             /\ is_outgoing_closed' <=> is_outgoing_closed
      ]_vars

\* A tick that began with Front hung up, readable and writable and Back open
\* has read a byte, and Front is still closed and Back still open.
C19_Witness ==
    /\ last.op = "tick"
    /\ last.ready[Front] = {Readable, Writable, Hup}
    /\ last.ready[Back] \cap {Hup, Error} = {}
    /\ \E e \in EndPointType : last.absorbed[e] > 0
    /\ is_incoming_closed
    /\ ~is_outgoing_closed

\* C20: with tick and the merge of writable for each point weakly fair, the
\* peer handles installed and every write accepting at least one byte, each
\* byte read into a point's buffer is eventually written to the peer's
\* socket: again and again, all that was read from a socket so far has been
\* written to the other.  And a tick leaves no point writable, whether or not
\* there was anything to drain, and writes to a socket only if its point was
\* writable when the tick began, so that bytes left in a buffer by a tick
\* are written by no later tick unless writable is merged in between.
C20_EventualDelivery ==
    /\ \A e \in EndPointType : []<>(Len(sent[Peer(e)]) = nread[e])
    /\ [][last'.op = "tick"
          => /\ \A s \in EndPointType :
                   /\ Writable \notin state'[s]
                   /\ sent'[s] # sent[s] => Writable \in state[s]
             /\ last.op = "tick" => sent' = sent
         ]_vars

\* Every byte of the longer stream, more than one buffer of them, has been
\* read and written to the peer's socket.
C20_Witness ==
    \E e \in EndPointType :
       /\ stream_len[e] = BufLen + 1
       /\ nread[e] = BufLen + 1
       /\ sent[Peer(e)] = Arrived(e, BufLen + 1)
       /\ buffer_index[e] = 0
       /\ Writable \notin state[Peer(e)]

====
